---- MODULE Spec2Model ----
(***************************************************************************)
(* msprime: the mutation generator (mutgen_*, src/unnamed/part_000) and    *)
(* the haplotype generator (hapgen_*, src/lib/hapgen.c) as state machines. *)
(*                                                                         *)
(* Return codes are strings: "0" is success (C's 0), "1" is the            *)
(* tree iterator's "a tree is available", "MSP_ERR_..." are the error      *)
(* codes of err.h.                                                         *)
(*                                                                         *)
(* Genomic positions are doubles in the code.  The doubles gsl_ran_flat    *)
(* can return in [left, right) are a finite ordered set; the model takes   *)
(* the integers left .. right-1 for it.                                    *)
(***************************************************************************)
EXTENDS Integers, Sequences, FiniteSets, TLC

(* ------------------------------ bounds --------------------------------- *)

\* edges->num_rows is at most MaxEdges
MaxEdges == 2
\* gsl_ran_poisson returns at most MaxBranchMutations
MaxBranchMutations == 2
\* edge coordinates are 0 .. SeqLen, positions 0 .. SeqLen-1
SeqLen == 2
\* a tree sequence has 1 .. MaxSamples samples
MaxSamples == 2
\* the tree iterator yields at most MaxTrees trees
MaxTrees == 2
\* a tree sequence has up to MaxMutations mutations whose nodes are chosen one
\* by one, after none or after enough others to reach the end of a first word
MaxMutations == 1

(* -------------------------- program constants -------------------------- *)

MSP_ALPHABET_BINARY == 0
MSP_ALPHABET_NUCLEOTIDE == 1
MSP_NULL_MUTATION == -1
DefaultBlockSize == 8192
MutationBlockSizeDefault == 1048576
MinBlockSize == 128

NULL == 0
OK == "0"
MSP_ERR_NO_MEMORY == "MSP_ERR_NO_MEMORY"
MSP_ERR_BAD_PARAM_VALUE == "MSP_ERR_BAD_PARAM_VALUE"

binary_mutation_types ==
    << [ancestral_state |-> "0", derived_state |-> "1"] >>

acgt_mutation_types ==
    << [ancestral_state |-> "A", derived_state |-> "C"],
       [ancestral_state |-> "A", derived_state |-> "G"],
       [ancestral_state |-> "A", derived_state |-> "T"],
       [ancestral_state |-> "C", derived_state |-> "A"],
       [ancestral_state |-> "C", derived_state |-> "G"],
       [ancestral_state |-> "C", derived_state |-> "T"],
       [ancestral_state |-> "G", derived_state |-> "A"],
       [ancestral_state |-> "G", derived_state |-> "C"],
       [ancestral_state |-> "G", derived_state |-> "T"],
       [ancestral_state |-> "T", derived_state |-> "A"],
       [ancestral_state |-> "T", derived_state |-> "C"],
       [ancestral_state |-> "T", derived_state |-> "G"] >>

HG_WORD_SIZE == 64
MSP_ERR_INCONSISTENT_MUTATIONS == "MSP_ERR_INCONSISTENT_MUTATIONS"
MSP_ERR_NONBINARY_MUTATIONS_UNSUPPORTED == "MSP_ERR_NONBINARY_MUTATIONS_UNSUPPORTED"
MSP_ERR_OUT_OF_BOUNDS == "MSP_ERR_OUT_OF_BOUNDS"
\* not a return value: the call did not return, the process ended in it
WILD == "wild access"

MSP_MAX(a, b) == IF a > b THEN a ELSE b

(* ------------------------------- inputs -------------------------------- *)

\* tables->nodes: time of node 0, 1 (samples) and 2 (their ancestor);
\* node ids are 0-based, the sequence is 1-based.
NodeTime == << 0, 0, 1 >>
time(u) == NodeTime[u + 1]

\* rows an edge table can hold: left < right, the child younger than the parent
EdgeRows ==
    { e \in [left : 0 .. SeqLen - 1, right : 1 .. SeqLen, parent : {2}, child : {0, 1}] :
        e.left < e.right }

\* arguments of mutgen_alloc
AlphabetArgs == { -1, MSP_ALPHABET_BINARY, MSP_ALPHABET_NUCLEOTIDE, 2 }
BlockSizeArgs == { 0, MinBlockSize - 1, MinBlockSize + 1 }
MutationRateArgs == { 0, 1 }

\* gsl_ran_poisson(rng, mu): 0 when mu = 0, any count otherwise
PoissonDraws(mu) == IF mu = 0 THEN {0} ELSE 0 .. MaxBranchMutations

\* gsl_ran_flat(rng, left, right): a value of [left, right)
FlatDraws(left, right) == left .. right - 1

\* gsl_rng_uniform_int(rng, n): a value of 0 .. n-1; the first and the last
\* are drawn here
UniformIntDraws(n) == { 0, n - 1 }

(* -------------------------------- state -------------------------------- *)

VARIABLES
    mg_pc,            \* where the mutation generator is: "uninit", "idle"
                      \* (allocated), "built" (mutgen_generate has returned),
                      \* or inside mutgen_generate: "edge", "draw", "search"
    alphabet,         \* self->alphabet
    mutation_rate,    \* self->mutation_rate
    block_size,       \* the block size given to self->allocator
    sites,            \* self->sites, the AVL tree, as its in-order sequence
    site_table,       \* tables->sites
    mutation_table,   \* tables->mutations
    mg_ret,           \* what the last mutgen call returned
    num_rows,         \* edges->num_rows of the running call
    j,                \* mutgen_generate's j
    edge,             \* edges row j: left, right, parent, child
    branch_mutations, \* mutgen_generate's branch_mutations
    l,                \* mutgen_generate's l
    position,         \* mutgen_generate's position
    arg_alphabet,     \* history: the alphabet argument of the last mutgen_alloc
    arg_block_size,   \* history: the block_size argument of the last mutgen_alloc
    placed,           \* history: << position, child of the edge it was drawn
                      \* on >> for each position accepted in the running call
    drawn,            \* history: sum of branch_mutations over the running call
    prior             \* history: the number of site rows the tables held when
                      \* the last call began (the output of the call before)

mgvars == << mg_pc, alphabet, mutation_rate, block_size, sites, site_table,
             mutation_table, mg_ret, num_rows, j, edge, branch_mutations, l,
             position, arg_alphabet, arg_block_size, placed, drawn, prior >>

\* the haplotype generator and the tree sequence it is built from
VARIABLES
    tree_sequence,    \* the tree sequence handed to hapgen_alloc: sample_size,
                      \* num_mutations, mutation_types.num_records
    hg_pc,            \* "uninit", "trees" (hapgen_alloc is iterating the trees),
                      \* "built", "failed" (hapgen_alloc returned an error),
                      \* "crashed" (a wild read ended the process)
    sample_size,      \* self->sample_size
    num_mutations,    \* self->num_mutations
    words_per_row,    \* self->words_per_row
    haplotype_matrix, \* self->haplotype_matrix: words, each the set of its 1 bits
    haplotype,        \* self->haplotype, the character buffer
    hg_ret,           \* what the last hapgen call returned
    trees_seen,       \* trees the iterator has yielded so far
    mutations_seen,   \* mutations on the trees yielded so far
    arg_sample_id,    \* the sample_id argument of the last hapgen_get_haplotype
    out,              \* *haplotype after the last hapgen_get_haplotype: a string
    reads,            \* history: the matrix indexes the last hapgen_get_haplotype read
    carriers,         \* history: << sample, column >> for every sample in the leaf
                      \* list of a node of a mutation, over the trees yielded
    touched,          \* history: for each hapgen_set_bit of the build, its word
                      \* and its index into haplotype_matrix
    writes,           \* history: the indexes of self->haplotype the last
                      \* hapgen_get_haplotype wrote
    tree_calls        \* history: empty while no mutation asked twice for the same
                      \* << sample, column >>; else, for each mutation of the tree
                      \* where one did, in order, the << sample, column >> of each
                      \* hapgen_set_bit it asks for, in order

hgvars == << tree_sequence, hg_pc, sample_size, num_mutations, words_per_row,
             haplotype_matrix, haplotype, hg_ret, trees_seen,
             mutations_seen, arg_sample_id, out, reads, carriers, touched,
             writes, tree_calls >>

\* the mutation generator of the earlier interface (mutgen_alloc without an
\* alphabet or a block size, and a setter for the block size); of its fields,
\* the one the setter writes
VARIABLES
    v1_pc,                   \* "uninit" or "idle" (allocated)
    mutation_block_size,     \* self->mutation_block_size
    v1_ret,                  \* what the last call of the earlier interface returned
    arg_mutation_block_size  \* history: << the argument of the last
                             \* mutgen_set_mutation_block_size >>, empty
                             \* before it

v1vars == << v1_pc, mutation_block_size, v1_ret, arg_mutation_block_size >>

vars == << mgvars, hgvars, v1vars >>

NoEdge == [left |-> 0, right |-> 0, parent |-> 0, child |-> 0]

(* ---------------------- the ordered site index -------------------------- *)

cmp_site(a, b) ==
    (IF a.position > b.position THEN 1 ELSE 0)
    - (IF a.position < b.position THEN 1 ELSE 0)

\* avl_search(&self->sites, &position): the node comparing equal (its rank
\* in the order, from 1), or NULL
avl_search(tree, pos) ==
    IF \E i \in 1 .. Len(tree) : cmp_site(tree[i], [position |-> pos]) = 0
    THEN CHOOSE i \in 1 .. Len(tree) : cmp_site(tree[i], [position |-> pos]) = 0
    ELSE NULL

\* avl_insert_node: NULL (tree unchanged) when an equal item is present,
\* the item linked at its place in the order otherwise
avl_insert_node(tree, item) ==
    IF avl_search(tree, item.position) # NULL
    THEN [node |-> NULL, tree |-> tree]
    ELSE LET before == SelectSeq(tree, LAMBDA s : cmp_site(s, item) < 0)
             after == SelectSeq(tree, LAMBDA s : cmp_site(s, item) > 0)
         IN [node |-> Len(before) + 1, tree |-> before \o << item >> \o after]

avl_clear_tree(tree) == << >>

(* ------------------------------ the tables ------------------------------ *)

\* site_table_add_row: the new row's id, the table with the row appended
site_table_add_row(table, pos, ancestral_state, ancestral_state_length) ==
    [id |-> Len(table),
     table |-> Append(table, [position |-> pos,
                              ancestral_state |-> ancestral_state,
                              ancestral_state_length |-> ancestral_state_length])]

mutation_table_add_row(table, site, node, parent, derived_state, derived_state_length) ==
    Append(table, [site |-> site, node |-> node, parent |-> parent,
                   derived_state |-> derived_state,
                   derived_state_length |-> derived_state_length])

(* ------------------------------ hapgen ---------------------------------- *)

\* tree_sequence_get_num_mutations: few mutations, or a full word of them, or
\* a full word and one
NumMutationsArgs ==
    (0 .. MaxMutations) \cup { HG_WORD_SIZE, HG_WORD_SIZE + 1 }

\* mutation_types.num_records
NumMutationTypesArgs == { 0, 1, 12 }

TreeSequences ==
    [sample_size : 1 .. MaxSamples,
     num_mutations : NumMutationsArgs,
     num_mutation_types : NumMutationTypesArgs]

NoTreeSequence == [sample_size |-> 0, num_mutations |-> 0, num_mutation_types |-> 0]

\* no haplotype generator exists
HgNone ==
    /\ tree_sequence = NoTreeSequence
    /\ hg_pc = "uninit"
    /\ sample_size = 0
    /\ num_mutations = 0
    /\ words_per_row = 0
    /\ haplotype_matrix = << >>
    /\ haplotype = << >>
    /\ hg_ret = OK
    /\ trees_seen = 0
    /\ mutations_seen = 0
    /\ arg_sample_id = 0
    /\ out = << >>
    /\ reads = {}
    /\ carriers = {}
    /\ touched = {}
    /\ writes = {}
    /\ tree_calls = << >>

\* before hapgen_alloc: a tree sequence, the generator's memory not yet set
HgInit ==
    /\ tree_sequence \in TreeSequences
    /\ hg_pc = "uninit"
    /\ sample_size = 0
    /\ num_mutations = 0
    /\ words_per_row = 0
    /\ haplotype_matrix = << >>
    /\ haplotype = << >>
    /\ hg_ret = OK
    /\ trees_seen = 0
    /\ mutations_seen = 0
    /\ arg_sample_id = 0
    /\ out = << >>
    /\ reads = {}
    /\ carriers = {}
    /\ touched = {}
    /\ writes = {}
    /\ tree_calls = << >>

\* The columns below Bulk(k) are the mutations that come in bulk: on one tree,
\* all on the same nodes.  The nodes of the others are chosen one by one: all
\* of them of a short table, the last one of a long table.
Bulk(k) == IF k > MaxMutations THEN k - 1 ELSE 0

\* the leaf list of a sample is the sample; the leaf list of node sample_size,
\* the one internal node, is any list of samples in ascending order (empty:
\* the node is not in the tree)
RootLeafLists(S) ==
    { q \in UNION { [1 .. n -> 0 .. S - 1] : n \in 0 .. S } :
        \A a, b \in DOMAIN q : a < b => q[a] < q[b] }

LeafLists(S, root_leaves) ==
    [u \in 0 .. S |-> IF u < S THEN << u >> ELSE root_leaves]

\* mut->nodes of a mutation: one node, or a node and the internal node, in
\* either order
NodeLists(S) ==
    { << u >> : u \in 0 .. S } \cup { << u, S >> : u \in 0 .. S } \cup { << S, 0 >> }

\* the numbers of mutations the next tree can carry
TreeMutationCounts(k, seen) ==
    { 0 } \cup { m \in 1 .. k - seen : seen < Bulk(k) => seen + m >= Bulk(k) }

\* mut->nodes of the mutations that come in bulk
BulkNodeLists(S) == { << S >>, << 0 >> }

\* the mutations a tree carries: m of them from column first on
TreeMutations(first, m, k, bulk_nodes, free_nodes) ==
    [i \in 1 .. m |->
        LET c == first + i - 1
            nodes == IF c < Bulk(k) THEN bulk_nodes ELSE free_nodes[c - Bulk(k) + 1]
        IN [index |-> c, nodes |-> nodes, num_nodes |-> Len(nodes)]]

\* sparse_tree_get_leaf_list(&self->tree, u, &w, &tail): the list from w to tail
sparse_tree_get_leaf_list(t, u) == t.leaves[u]

\* words_per_row as hapgen_alloc sets it, without the one added
WordsPerRowFloor(k) == k \div HG_WORD_SIZE

\* words_per_row as hapgen_alloc sets it, with the quotient rounded up instead
WordsPerRowCeil(k) == (k + HG_WORD_SIZE - 1) \div HG_WORD_SIZE

\* words_per_row as hapgen_alloc sets it
WordsPerRow(k) == (k \div HG_WORD_SIZE) + 1

\* hapgen_alloc's test of the mutation-type table, without the test of the
\* number of mutations
NonBinaryAnyCount(k, num_records) == num_records # 1

\* hapgen_alloc's test of the mutation-type table
NonBinary(k, num_records) == k > 0 /\ num_records # 1

\* hapgen_set_bit that sets the bit whatever it was
hapgen_set_bit_unchecked(matrix, W, row, column) ==
    LET word == column \div HG_WORD_SIZE
        bit == column % HG_WORD_SIZE
        index == row * W + word
        access == { [word |-> word, index |-> index] }
    IN IF ~ (word < W) \/ ~ (index + 1 \in DOMAIN matrix)
       THEN [ret |-> WILD, matrix |-> matrix, touched |-> access]
       ELSE [ret |-> OK,
             matrix |-> [matrix EXCEPT ![index + 1] = matrix[index + 1] \cup { bit }],
             touched |-> access]

\* hapgen_set_bit: matrix[index] is the word at C index `index`.  The result
\* names the word and the index of the access.  With word >= words_per_row the
\* assertion fails, and an index outside the matrix is a wild access: either
\* way the process ends there.
hapgen_set_bit(matrix, W, row, column) ==
    LET word == column \div HG_WORD_SIZE
        bit == column % HG_WORD_SIZE
        index == row * W + word
        access == { [word |-> word, index |-> index] }
    IN IF ~ (word < W) \/ ~ (index + 1 \in DOMAIN matrix)
       THEN [ret |-> WILD, matrix |-> matrix, touched |-> access]
       ELSE IF bit \in matrix[index + 1]
       THEN [ret |-> MSP_ERR_INCONSISTENT_MUTATIONS, matrix |-> matrix,
             touched |-> access]
       ELSE [ret |-> OK,
             matrix |-> [matrix EXCEPT ![index + 1] = matrix[index + 1] \cup { bit }],
             touched |-> access]

\* the result of a step and of the steps after it: what the later ones
\* return, and the accesses of both
Then(step, later) == [later EXCEPT !.touched = step.touched \cup @]

\* the while loop of hapgen_apply_tree_mutation: the leaf list from its i-th
\* node to its tail
RECURSIVE WalkLeafList(_, _, _, _, _)
WalkLeafList(matrix, W, list, i, column) ==
    LET set == hapgen_set_bit(matrix, W, list[i], column)
    IN IF set.ret # OK
       THEN set
       ELSE IF i = Len(list)
       THEN set
       ELSE Then(set, WalkLeafList(set.matrix, W, list, i + 1, column))

\* the for loop of hapgen_apply_tree_mutation, from node jn of the mutation on
RECURSIVE ApplyNodes(_, _, _, _, _)
ApplyNodes(matrix, W, t, mut, jn) ==
    IF jn > mut.num_nodes
    THEN [ret |-> OK, matrix |-> matrix, touched |-> {}]
    ELSE LET list == sparse_tree_get_leaf_list(t, mut.nodes[jn])
         IN IF list # << >>
            THEN LET walked == WalkLeafList(matrix, W, list, 1, mut.index)
                 IN IF walked.ret # OK
                    THEN walked
                    ELSE Then(walked, ApplyNodes(walked.matrix, W, t, mut, jn + 1))
            ELSE ApplyNodes(matrix, W, t, mut, jn + 1)

hapgen_apply_tree_mutation(matrix, W, t, mut) == ApplyNodes(matrix, W, t, mut, 1)

\* the loop of hapgen_generate_all_haplotypes over the mutations of one tree,
\* for mutations lo .. hi of the tree: the first half of them, then, if that
\* returned 0, the second half
RECURSIVE ApplyTreeMutations(_, _, _, _, _)
ApplyTreeMutations(matrix, W, t, lo, hi) ==
    IF lo > hi
    THEN [ret |-> OK, matrix |-> matrix, touched |-> {}]
    ELSE IF lo = hi
    THEN hapgen_apply_tree_mutation(matrix, W, t, t.mutations[lo])
    ELSE LET mid == (lo + hi) \div 2
             applied == ApplyTreeMutations(matrix, W, t, lo, mid)
         IN IF applied.ret # OK
            THEN applied
            ELSE Then(applied, ApplyTreeMutations(applied.matrix, W, t, mid + 1, hi))

\* the hapgen_set_bit calls a mutation asks for: << sample, column >> for each
\* leaf of each of its nodes, in order
RECURSIVE MutationCalls(_, _, _)
MutationCalls(t, mut, jn) ==
    IF jn > mut.num_nodes
    THEN << >>
    ELSE [i \in 1 .. Len(t.leaves[mut.nodes[jn]]) |->
              << t.leaves[mut.nodes[jn]][i], mut.index >>]
         \o MutationCalls(t, mut, jn + 1)

\* a list of hapgen_set_bit calls names some << sample, column >> twice
HasRepeat(calls) ==
    \E a, b \in 1 .. Len(calls) : a < b /\ calls[a] = calls[b]

\* hapgen_alloc up to the tree iteration
hapgen_alloc_begin(tree_ok, mem_ok) ==
    /\ hg_pc = "uninit"
    /\ sample_size' = tree_sequence.sample_size
    /\ num_mutations' = tree_sequence.num_mutations
    /\ IF NonBinary(tree_sequence.num_mutations, tree_sequence.num_mutation_types)
       THEN /\ hg_ret' = MSP_ERR_NONBINARY_MUTATIONS_UNSUPPORTED
            /\ hg_pc' = "failed"
            /\ UNCHANGED << words_per_row, haplotype_matrix, haplotype >>
       ELSE IF ~ tree_ok
       THEN /\ hg_ret' = MSP_ERR_NO_MEMORY
            /\ hg_pc' = "failed"
            /\ UNCHANGED << words_per_row, haplotype_matrix, haplotype >>
       ELSE /\ words_per_row' = WordsPerRow(tree_sequence.num_mutations)
            /\ IF ~ mem_ok
               THEN /\ hg_ret' = MSP_ERR_NO_MEMORY
                    /\ hg_pc' = "failed"
                    /\ UNCHANGED << haplotype_matrix, haplotype >>
               ELSE /\ haplotype_matrix' =
                         [i \in 1 .. words_per_row' * tree_sequence.sample_size |-> {}]
                    /\ haplotype' =
                         [i \in 1 .. words_per_row' * HG_WORD_SIZE + 1 |-> "?"]
                    /\ hg_ret' = hg_ret
                    /\ hg_pc' = "trees"
    /\ UNCHANGED << tree_sequence, trees_seen, mutations_seen,
                    arg_sample_id, out, reads, carriers, touched, writes,
                    tree_calls >>
    /\ UNCHANGED << mgvars, v1vars >>

\* One turn of the loop of hapgen_generate_all_haplotypes: sparse_tree_first
\* or sparse_tree_next returns 1 and the tree carries m mutations, the columns
\* mutations_seen .. mutations_seen + m - 1.  A tree that carries one of the
\* bulk columns carries them all; the last tree carries what is left.
hapgen_tree(root_leaves, m, bulk_nodes, free_nodes) ==
    /\ hg_pc = "trees"
    /\ trees_seen < MaxTrees
    /\ m \in TreeMutationCounts(num_mutations, mutations_seen)
    /\ trees_seen = MaxTrees - 1 => m = num_mutations - mutations_seen
    /\ IF m > 0 /\ mutations_seen < Bulk(num_mutations)
       THEN bulk_nodes \in BulkNodeLists(sample_size)
       ELSE bulk_nodes = << 0 >>
    /\ \A f \in DOMAIN free_nodes :
          LET c == Bulk(num_mutations) + f - 1
          IN IF c >= mutations_seen /\ c < mutations_seen + m
             THEN free_nodes[f] \in NodeLists(sample_size)
             ELSE free_nodes[f] = << 0 >>
    /\ IF m > 0
       THEN root_leaves \in RootLeafLists(sample_size)
       ELSE root_leaves = << >>
    /\ LET t == [leaves |-> LeafLists(sample_size, root_leaves),
                 mutations |-> TreeMutations(mutations_seen, m, num_mutations,
                                             bulk_nodes, free_nodes),
                 num_mutations |-> m]
           applied == ApplyTreeMutations(haplotype_matrix, words_per_row, t, 1, m)
           calls == [i \in 1 .. m |-> MutationCalls(t, t.mutations[i], 1)]
       IN /\ haplotype_matrix' = applied.matrix
          /\ tree_calls' = IF \E i \in 1 .. m : HasRepeat(calls[i])
                            THEN calls
                            ELSE << >>
          /\ carriers' = carriers \cup
                 UNION { { calls[i][h] : h \in 1 .. Len(calls[i]) } : i \in 1 .. m }
          /\ touched' = touched \cup applied.touched
          /\ IF applied.ret = WILD
             THEN /\ hg_ret' = hg_ret
                  /\ hg_pc' = "crashed"
             ELSE IF applied.ret # OK
             THEN /\ hg_ret' = applied.ret
                  /\ hg_pc' = "failed"
             ELSE /\ hg_ret' = hg_ret
                  /\ hg_pc' = "trees"
    /\ trees_seen' = trees_seen + 1
    /\ mutations_seen' = mutations_seen + m
    /\ UNCHANGED << tree_sequence, sample_size, num_mutations, words_per_row,
                    haplotype, arg_sample_id, out, reads, writes >>
    /\ UNCHANGED << mgvars, v1vars >>

\* sparse_tree_next returns 0: hapgen_alloc returns 0
hapgen_alloc_end ==
    /\ hg_pc = "trees"
    /\ trees_seen >= 1
    /\ mutations_seen = num_mutations
    /\ hg_ret' = OK
    /\ hg_pc' = "built"
    /\ UNCHANGED << tree_sequence, sample_size, num_mutations, words_per_row,
                    haplotype_matrix, haplotype, trees_seen, mutations_seen,
                    arg_sample_id, out, reads, carriers, touched, writes,
                    tree_calls >>
    /\ UNCHANGED << mgvars, v1vars >>

\* what a read outside the matrix can yield: here, a word of zeros or of ones
GarbageWords == { {}, 0 .. HG_WORD_SIZE - 1 }

\* sample_id arguments of hapgen_get_haplotype
SampleIdArgs == -1 .. MaxSamples

\* (word >> k) & 1ULL ? '1' : '0' with the bits counted from the high end
HaplotypeCharHighFirst(word, k) ==
    IF (HG_WORD_SIZE - 1 - k) \in word THEN "1" ELSE "0"

\* (word >> k) & 1ULL ? '1' : '0'
HaplotypeChar(word, k) == IF k \in word THEN "1" ELSE "0"

\* the buffer after the two loops of hapgen_get_haplotype and the terminator:
\* C index l = j * HG_WORD_SIZE + k holds bit k of words[j]; buf[l + 1] is the
\* character at C index l
FillHaplotype(buf, words, W, k_mutations) ==
    [i \in 1 .. Len(buf) |->
        IF i - 1 = k_mutations
        THEN "NUL"
        ELSE IF i - 1 < W * HG_WORD_SIZE
        THEN HaplotypeChar(words[((i - 1) \div HG_WORD_SIZE) + 1],
                           (i - 1) % HG_WORD_SIZE)
        ELSE buf[i]]

\* the indexes of self->haplotype the two loops and the terminator write
HaplotypeWrites(W, k_mutations) ==
    { jw * HG_WORD_SIZE + kb : jw \in 0 .. W - 1, kb \in 0 .. HG_WORD_SIZE - 1 }
        \cup { k_mutations }

\* the C string a buffer holds: the characters before the first terminator
CString(buf) ==
    IF \E i \in 1 .. Len(buf) : buf[i] = "NUL"
    THEN LET n == CHOOSE i \in 1 .. Len(buf) :
                      /\ buf[i] = "NUL"
                      /\ \A h \in 1 .. i - 1 : buf[h] # "NUL"
         IN SubSeq(buf, 1, n - 1)
    ELSE buf

\* hapgen_get_haplotype's test of sample_id: node_id_t is a signed type
SampleIdOutOfBounds(sample_id, S) == sample_id >= S

\* hapgen_get_haplotype.  word_index is ((size_t) sample_id) * words_per_row + j:
\* for a negative sample_id it wraps to 2^64 + sample_id * words_per_row + j,
\* far outside the matrix; the model keeps it as the negative number.  A read
\* outside the matrix is undefined: the process crashes, or the read yields
\* garbage.
hapgen_get_haplotype(sample_id, crash, garbage) ==
    /\ hg_pc = "built"
    /\ sample_id <= sample_size
    /\ arg_sample_id' = sample_id
    /\ IF SampleIdOutOfBounds(sample_id, sample_size)
       THEN /\ crash = FALSE
            /\ garbage = {}
            /\ hg_ret' = MSP_ERR_OUT_OF_BOUNDS
            /\ reads' = {}
            /\ writes' = {}
            /\ UNCHANGED << hg_pc, haplotype, out >>
       ELSE LET word_index == [jw \in 0 .. words_per_row - 1 |->
                                  sample_id * words_per_row + jw]
                inside == \A jw \in 0 .. words_per_row - 1 :
                              /\ word_index[jw] >= 0
                              /\ word_index[jw] < Len(haplotype_matrix)
                words == [w \in 1 .. words_per_row |->
                             IF inside
                             THEN haplotype_matrix[word_index[w - 1] + 1]
                             ELSE garbage]
            IN /\ inside => (crash = FALSE /\ garbage = {})
               /\ reads' = { word_index[jw] : jw \in 0 .. words_per_row - 1 }
               /\ IF crash
                  THEN /\ hg_pc' = "crashed"
                       /\ writes' = {}
                       /\ UNCHANGED << hg_ret, haplotype, out >>
                  ELSE /\ haplotype' = FillHaplotype(haplotype, words,
                                           words_per_row, num_mutations)
                       /\ writes' = HaplotypeWrites(words_per_row, num_mutations)
                       /\ out' = CString(haplotype')
                       /\ hg_ret' = OK
                       /\ hg_pc' = hg_pc
    /\ UNCHANGED << tree_sequence, sample_size, num_mutations, words_per_row,
                    haplotype_matrix, trees_seen, mutations_seen, carriers,
                    touched, tree_calls >>
    /\ UNCHANGED << mgvars, v1vars >>

HgNext ==
    \/ \E tree_ok \in BOOLEAN, mem_ok \in BOOLEAN : hapgen_alloc_begin(tree_ok, mem_ok)
    \/ \E m \in TreeMutationCounts(num_mutations, mutations_seen),
          bulk_nodes \in BulkNodeLists(sample_size) \cup { << 0 >> },
          free_nodes \in [1 .. num_mutations - Bulk(num_mutations) ->
                             NodeLists(sample_size)],
          root_leaves \in RootLeafLists(sample_size) :
          hapgen_tree(root_leaves, m, bulk_nodes, free_nodes)
    \/ hapgen_alloc_end
    \/ \E sample_id \in SampleIdArgs, crash \in BOOLEAN, garbage \in GarbageWords :
          hapgen_get_haplotype(sample_id, crash, garbage)

(* ------------------------------ mutgen ---------------------------------- *)

MgInit ==
    /\ mg_pc = "uninit"
    /\ alphabet = 0
    /\ mutation_rate = 0
    /\ block_size = 0
    /\ sites = << >>
    /\ site_table = << >>
    /\ mutation_table = << >>
    /\ mg_ret = OK
    /\ num_rows = 0
    /\ j = 0
    /\ edge = NoEdge
    /\ branch_mutations = 0
    /\ l = 0
    /\ position = 0
    /\ arg_alphabet = 0
    /\ arg_block_size = 0
    /\ placed = {}
    /\ drawn = 0
    /\ prior = 0
    /\ v1_pc = "uninit"
    /\ mutation_block_size = 0
    /\ v1_ret = OK
    /\ arg_mutation_block_size = << >>

\* mutgen_alloc with the block size handed on as it is given
AllocBlockSizeAsGiven(arg) == arg

\* the block size mutgen_alloc hands to block_allocator_alloc
AllocBlockSize(arg) ==
    MSP_MAX(IF arg = 0 THEN DefaultBlockSize ELSE arg, MinBlockSize)

mutgen_alloc(rate, alpha, bs, mem_ok) ==
    /\ mg_pc = "uninit"
    /\ IF ~ (alpha = MSP_ALPHABET_BINARY \/ alpha = MSP_ALPHABET_NUCLEOTIDE)
       THEN /\ mg_ret' = MSP_ERR_BAD_PARAM_VALUE
            /\ alphabet' = 0
            /\ mutation_rate' = 0
            /\ block_size' = 0
            /\ mg_pc' = "uninit"
       ELSE /\ alphabet' = alpha
            /\ mutation_rate' = rate
            /\ IF mem_ok
               THEN /\ block_size' = AllocBlockSize(bs)
                    /\ mg_ret' = OK
                    /\ mg_pc' = "idle"
               ELSE /\ block_size' = 0
                    /\ mg_ret' = MSP_ERR_NO_MEMORY
                    /\ mg_pc' = "uninit"
    /\ sites' = << >>
    /\ arg_alphabet' = alpha
    /\ arg_block_size' = bs
    /\ UNCHANGED << site_table, mutation_table, num_rows, j, edge,
                    branch_mutations, l, position, placed, drawn, prior >>
    /\ UNCHANGED << hgvars, v1vars >>


\* mutgen_generate returns: its locals are gone
GenerateReturns ==
    /\ num_rows' = 0
    /\ j' = 0
    /\ edge' = NoEdge
    /\ branch_mutations' = 0
    /\ l' = 0
    /\ position' = 0

\* mutgen_add_mutation with the site put at the tail of the index instead of
\* at its place in the order
mutgen_add_mutation_at_tail(tree, node, pos, ancestral_state, derived_state, mem_ok) ==
    IF ~ mem_ok
    THEN [ret |-> MSP_ERR_NO_MEMORY, sites |-> tree]
    ELSE [ret |-> OK,
          sites |-> Append(tree,
                [position |-> pos,
                 ancestral_state |-> ancestral_state,
                 ancestral_state_length |-> 1,
                 mutations |-> << [derived_state |-> derived_state,
                                   derived_state_length |-> 1,
                                   node |-> node,
                                   parent |-> MSP_NULL_MUTATION] >>,
                 mutations_length |-> 1])]

\* mutgen_add_mutation with mutation->node left as memset zeroed it
mutgen_add_mutation_node_unset(tree, node, pos, ancestral_state, derived_state, mem_ok) ==
    IF ~ mem_ok
    THEN [ret |-> MSP_ERR_NO_MEMORY, sites |-> tree]
    ELSE [ret |-> OK,
          sites |-> avl_insert_node(tree,
                [position |-> pos,
                 ancestral_state |-> ancestral_state,
                 ancestral_state_length |-> 1,
                 mutations |-> << [derived_state |-> derived_state,
                                   derived_state_length |-> 1,
                                   node |-> 0,
                                   parent |-> MSP_NULL_MUTATION] >>,
                 mutations_length |-> 1]).tree]

\* a new site holding one root mutation, linked into self->sites; the three
\* block_allocator_get calls succeed together (mem_ok) or not
mutgen_add_mutation(tree, node, pos, ancestral_state, derived_state, mem_ok) ==
    IF ~ mem_ok
    THEN [ret |-> MSP_ERR_NO_MEMORY, sites |-> tree]
    ELSE LET mutation == [derived_state |-> derived_state,
                          derived_state_length |-> 1,
                          node |-> node,
                          parent |-> MSP_NULL_MUTATION]
             site == [position |-> pos,
                      ancestral_state |-> ancestral_state,
                      ancestral_state_length |-> 1,
                      mutations |-> << mutation >>,
                      mutations_length |-> 1]
         IN [ret |-> OK, sites |-> avl_insert_node(tree, site).tree]

\* the inner loop of mutgen_populate_tables: the mutation rows of one site.
\* calls counts the add_row calls made so far; the call numbered fail_at fails.
RECURSIVE PopulateMutations(_, _, _, _, _, _)
PopulateMutations(site, m, site_id, mt, calls, fail_at) ==
    IF m > site.mutations_length
    THEN [ret |-> OK, mutation_table |-> mt, calls |-> calls]
    ELSE IF calls = fail_at
    THEN [ret |-> MSP_ERR_NO_MEMORY, mutation_table |-> mt, calls |-> calls]
    ELSE LET mutation == site.mutations[m]
         IN PopulateMutations(site, m + 1, site_id,
                mutation_table_add_row(mt, site_id, mutation.node, mutation.parent,
                    mutation.derived_state, mutation.derived_state_length),
                calls + 1, fail_at)

\* the outer loop of mutgen_populate_tables, from the a-th node of the tree on
RECURSIVE PopulateSites(_, _, _, _, _, _)
PopulateSites(tree, a, st, mt, calls, fail_at) ==
    IF a > Len(tree)
    THEN [ret |-> OK, site_table |-> st, mutation_table |-> mt]
    ELSE IF calls = fail_at
    THEN [ret |-> MSP_ERR_NO_MEMORY, site_table |-> st, mutation_table |-> mt]
    ELSE LET site == tree[a]
             added == site_table_add_row(st, site.position, site.ancestral_state,
                                         site.ancestral_state_length)
             muts == PopulateMutations(site, 1, added.id, mt, calls + 1, fail_at)
         IN IF muts.ret # OK
            THEN [ret |-> muts.ret, site_table |-> added.table,
                  mutation_table |-> muts.mutation_table]
            ELSE PopulateSites(tree, a + 1, added.table, muts.mutation_table,
                               muts.calls, fail_at)

\* fail_at = -1: no add_row call fails
mutgen_populate_tables(tree, st, mt, fail_at) ==
    PopulateSites(tree, 1, st, mt, 0, fail_at)

\* mutgen_generate's entry without the two table clears
GenerateResetKeepsTables(tree, st, mt) ==
    [sites |-> avl_clear_tree(tree), site_table |-> st, mutation_table |-> mt]

\* what mutgen_generate does first: the site index, the arena and both output
\* tables are emptied
GenerateReset(tree, st, mt) ==
    [sites |-> avl_clear_tree(tree), site_table |-> << >>, mutation_table |-> << >>]

\* mutgen_generate, entry: tables->edges has n rows
mutgen_generate_begin(n) ==
    /\ mg_pc \in {"idle", "built"}
    /\ LET r == GenerateReset(sites, site_table, mutation_table)
       IN /\ sites' = r.sites
          /\ site_table' = r.site_table
          /\ mutation_table' = r.mutation_table
    /\ prior' = Len(site_table)
    /\ placed' = {}
    /\ drawn' = 0
    /\ num_rows' = n
    /\ j' = 0
    /\ l' = 0
    /\ branch_mutations' = 0
    /\ edge' = NoEdge
    /\ position' = 0
    /\ mg_pc' = "edge"
    /\ UNCHANGED << alphabet, mutation_rate, block_size, mg_ret,
                    arg_alphabet, arg_block_size >>
    /\ UNCHANGED << hgvars, v1vars >>

\* the head of the loop over the edges: row j is e, the Poisson draw is n
mutgen_generate_edge(e, n) ==
    /\ mg_pc = "edge"
    /\ j < num_rows
    /\ LET distance == e.right - e.left
           branch_length == time(e.parent) - time(e.child)
           mu == branch_length * distance * mutation_rate
       IN n \in PoissonDraws(mu)
    /\ edge' = e
    /\ branch_mutations' = n
    /\ drawn' = drawn + n
    /\ l' = 0
    /\ IF n = 0
       THEN /\ j' = j + 1
            /\ mg_pc' = "edge"
       ELSE /\ j' = j
            /\ mg_pc' = "draw"
    /\ UNCHANGED << alphabet, mutation_rate, block_size, sites, site_table,
                    mutation_table, mg_ret, num_rows, position, arg_alphabet,
                    arg_block_size, placed, prior >>
    /\ UNCHANGED << hgvars, v1vars >>

\* the body of the rejection loop, first statement: position = gsl_ran_flat
mutgen_generate_draw(p) ==
    /\ mg_pc = "draw"
    /\ p \in FlatDraws(edge.left, edge.right)
    /\ position' = p
    /\ mg_pc' = "search"
    /\ UNCHANGED << alphabet, mutation_rate, block_size, sites, site_table,
                    mutation_table, mg_ret, num_rows, j, edge, branch_mutations,
                    l, arg_alphabet, arg_block_size, placed, drawn, prior >>
    /\ UNCHANGED << hgvars, v1vars >>

\* second statement and the loop test: the position is in the index, draw again
mutgen_generate_reject ==
    /\ mg_pc = "search"
    /\ avl_search(sites, position) # NULL
    /\ mg_pc' = "draw"
    /\ UNCHANGED << alphabet, mutation_rate, block_size, sites, site_table,
                    mutation_table, mg_ret, num_rows, j, edge, branch_mutations,
                    l, position, arg_alphabet, arg_block_size, placed, drawn,
                    prior >>
    /\ UNCHANGED << hgvars, v1vars >>

\* the position is free: the loop ends, a state pair is drawn and the mutation
\* is added; the loops over l and j advance
mutgen_generate_accept(type, mem_ok) ==
    /\ mg_pc = "search"
    /\ avl_search(sites, position) = NULL
    /\ LET mutation_types == IF alphabet = 0 THEN binary_mutation_types
                                           ELSE acgt_mutation_types
           num_mutation_types == IF alphabet = 0 THEN 1 ELSE 12
           added == mutgen_add_mutation(sites, edge.child, position,
                        mutation_types[type + 1].ancestral_state,
                        mutation_types[type + 1].derived_state, mem_ok)
       IN /\ type \in UniformIntDraws(num_mutation_types)
          /\ sites' = added.sites
          /\ IF added.ret # OK
             THEN /\ mg_ret' = added.ret
                  /\ mg_pc' = "built"
                  /\ GenerateReturns
                  /\ UNCHANGED placed
             ELSE /\ placed' = placed \cup { << position, edge.child >> }
                  /\ l' = l + 1
                  /\ mg_ret' = mg_ret
                  /\ IF l + 1 < branch_mutations
                     THEN /\ j' = j
                          /\ mg_pc' = "draw"
                     ELSE /\ j' = j + 1
                          /\ mg_pc' = "edge"
                  /\ UNCHANGED << num_rows, edge, branch_mutations, position >>
    /\ UNCHANGED << alphabet, mutation_rate, block_size, site_table,
                    mutation_table, arg_alphabet, arg_block_size, drawn, prior >>
    /\ UNCHANGED << hgvars, v1vars >>

\* every edge is done: the tables are populated and mutgen_generate returns
mutgen_generate_finish(fail_at) ==
    /\ mg_pc = "edge"
    /\ j = num_rows
    /\ fail_at \in -1 .. 2 * Len(sites) - 1
    /\ LET r == mutgen_populate_tables(sites, site_table, mutation_table, fail_at)
       IN /\ site_table' = r.site_table
          /\ mutation_table' = r.mutation_table
          /\ mg_ret' = r.ret
    /\ mg_pc' = "built"
    /\ GenerateReturns
    /\ UNCHANGED << alphabet, mutation_rate, block_size, sites, arg_alphabet,
                    arg_block_size, placed, drawn, prior >>
    /\ UNCHANGED << hgvars, v1vars >>

\* The block size does not bear on mutgen_generate: mutgen_alloc is given 0
\* here, and every block size under ConfigNext.
MgNext ==
    \/ \E rate \in MutationRateArgs, alpha \in AlphabetArgs, mem_ok \in BOOLEAN :
          mutgen_alloc(rate, alpha, 0, mem_ok)
    \/ \E n \in 0 .. MaxEdges : mutgen_generate_begin(n)
    \/ \E e \in EdgeRows, n \in 0 .. MaxBranchMutations : mutgen_generate_edge(e, n)
    \/ \E p \in 0 .. SeqLen - 1 : mutgen_generate_draw(p)
    \/ mutgen_generate_reject
    \/ \E type \in 0 .. 11, mem_ok \in BOOLEAN : mutgen_generate_accept(type, mem_ok)
    \/ \E fail_at \in -1 .. 2 * SeqLen : mutgen_generate_finish(fail_at)

\* mutgen_alloc of the earlier interface: memset, the default block size, then
\* the two allocations
mutgen_alloc_v1(mem_ok) ==
    /\ v1_pc = "uninit"
    /\ mutation_block_size' = MutationBlockSizeDefault
    /\ IF mem_ok
       THEN /\ v1_ret' = OK
            /\ v1_pc' = "idle"
       ELSE /\ v1_ret' = MSP_ERR_NO_MEMORY
            /\ v1_pc' = "uninit"
    /\ arg_mutation_block_size' = << >>
    /\ UNCHANGED << mgvars, hgvars >>

mutgen_set_mutation_block_size(size) ==
    /\ v1_pc = "idle"
    /\ IF size = 0
       THEN /\ v1_ret' = MSP_ERR_BAD_PARAM_VALUE
            /\ UNCHANGED mutation_block_size
       ELSE /\ mutation_block_size' = size
            /\ v1_ret' = OK
    /\ arg_mutation_block_size' = << size >>
    /\ UNCHANGED v1_pc
    /\ UNCHANGED << mgvars, hgvars >>

\* construction only, over every block size argument, in both interfaces
ConfigNext ==
    \/ \E rate \in MutationRateArgs, alpha \in AlphabetArgs,
          bs \in BlockSizeArgs, mem_ok \in BOOLEAN :
          mutgen_alloc(rate, alpha, bs, mem_ok)
    \/ \E mem_ok \in BOOLEAN : mutgen_alloc_v1(mem_ok)
    \/ \E size \in BlockSizeArgs : mutgen_set_mutation_block_size(size)

\* a mutation generator before mutgen_alloc, and no haplotype generator
InitMutgen == MgInit /\ HgNone

\* a haplotype generator before hapgen_alloc, and no mutation generator
InitHapgen == MgInit /\ HgInit

SpecMutgen == InitMutgen /\ [][MgNext]_vars

SpecHapgen == InitHapgen /\ [][HgNext]_vars

SpecMutgenConfig == InitMutgen /\ [][ConfigNext]_vars

\* the steps of a running mutgen_generate call
GenerateStep ==
    \/ \E e \in EdgeRows, n \in 0 .. MaxBranchMutations : mutgen_generate_edge(e, n)
    \/ \E p \in 0 .. SeqLen - 1 : mutgen_generate_draw(p)
    \/ mutgen_generate_reject
    \/ \E type \in 0 .. 11, mem_ok \in BOOLEAN : mutgen_generate_accept(type, mem_ok)
    \/ \E fail_at \in -1 .. 2 * SeqLen : mutgen_generate_finish(fail_at)

\* gsl_ran_flat returns a position the index does not hold
DrawFreePosition ==
    \E p \in 0 .. SeqLen - 1 :
        /\ avl_search(sites, p) = NULL
        /\ mutgen_generate_draw(p)

\* A running call keeps executing, and the random draws are fair: a loop that
\* draws for ever, with a free position in [left, right) each time, draws a
\* free position at some time.
SpecMutgenFair ==
    /\ InitMutgen
    /\ [][MgNext]_vars
    /\ WF_vars(GenerateStep)
    /\ SF_vars(DrawFreePosition)

(* ------------------------ claims: mutation generator -------------------- *)

GenerateSucceeded == mg_pc = "built" /\ mg_ret = OK
InGenerate == mg_pc \in {"edge", "draw", "search"}

\* C1: after a successful mutgen_generate the positions of successive
\* site-table rows are strictly increasing, so no two rows share a position.
C1_SitePositionsStrictlyIncreasing ==
    GenerateSucceeded =>
        /\ \A i \in 1 .. Len(site_table) - 1 :
               site_table[i].position < site_table[i + 1].position
        /\ \A i, k \in 1 .. Len(site_table) :
               i # k => site_table[i].position # site_table[k].position

\* a successful call that produced several sites
C1_Witness ==
    /\ GenerateSucceeded
    /\ Len(site_table) >= 2

\* C3: after a successful mutgen_generate the site index and both tables hold
\* exactly the sites placed during that call, whatever the calls before left,
\* and the number of rows is the number of mutations drawn over its edges.
C3_OnlyLastCallKept ==
    GenerateSucceeded =>
        /\ { site_table[i].position : i \in 1 .. Len(site_table) }
               = { pc[1] : pc \in placed }
        /\ { sites[i].position : i \in 1 .. Len(sites) }
               = { pc[1] : pc \in placed }
        /\ Len(site_table) = drawn
        /\ Len(mutation_table) = drawn
        /\ Len(sites) = drawn

\* a successful call on a generator whose call before left more sites
C3_Witness ==
    /\ GenerateSucceeded
    /\ Len(site_table) >= 1
    /\ prior > Len(site_table)

\* C6: after a successful mutgen_generate there is one mutation row per site
\* row; the i-th mutation row refers to site i (ids count from 0), its node is
\* the child of the edge its site's position was drawn on, and its parent is
\* the null mutation.
C6_OneRootMutationPerSite ==
    GenerateSucceeded =>
        /\ Len(mutation_table) = Len(site_table)
        /\ \A i \in 1 .. Len(mutation_table) :
              /\ i <= Len(site_table)
              /\ mutation_table[i].site = i - 1
              /\ mutation_table[i].parent = MSP_NULL_MUTATION
              /\ << site_table[i].position, mutation_table[i].node >> \in placed
              /\ \A pc \in placed :
                    pc[1] = site_table[i].position => pc[2] = mutation_table[i].node

\* a successful call with mutations on two different children
C6_Witness ==
    /\ GenerateSucceeded
    /\ Len(mutation_table) >= 2
    /\ mutation_table[1].node # mutation_table[2].node

\* C9: every call to mutgen_generate returns: with fair draws the rejection
\* loop of each mutation ends.
C9_GenerateReturns == InGenerate ~> (mg_pc = "built")

(* ---------------------- claims: construction --------------------------- *)

\* mutgen_alloc has been called, and has returned
AllocReturned == mg_pc = "idle" \/ mg_ret # OK

ValidAlphabet(a) == a = MSP_ALPHABET_BINARY \/ a = MSP_ALPHABET_NUCLEOTIDE

\* C8 as the specification states it: mutgen_alloc reports a bad parameter for
\* an alphabet that is neither binary nor nucleotide and for a block size of
\* zero, unless it has run out of memory.
C8_BadConfigurationRejected ==
    (AllocReturned /\ mg_ret # MSP_ERR_NO_MEMORY) =>
        ((~ ValidAlphabet(arg_alphabet) \/ arg_block_size = 0)
            => mg_ret = MSP_ERR_BAD_PARAM_VALUE)

\* C8: mutgen_alloc reports a bad parameter for an alphabet that is neither
\* binary nor nucleotide, and for nothing else; a block size of zero is
\* replaced by 8192 and a block size below 128 by 128.  In the earlier
\* interface a block size of zero is refused by the setter, after
\* construction, and the block size stays what it was.
C8_OnlyAlphabetRejected ==
    /\ AllocReturned =>
          /\ ~ ValidAlphabet(arg_alphabet) =>
                 mg_ret = MSP_ERR_BAD_PARAM_VALUE /\ mg_pc = "uninit"
          /\ mg_ret = MSP_ERR_BAD_PARAM_VALUE => ~ ValidAlphabet(arg_alphabet)
          /\ mg_pc = "idle" =>
                 /\ mg_ret = OK
                 /\ arg_block_size = 0 => block_size = 8192
                 /\ (arg_block_size > 0 /\ arg_block_size < 128) => block_size = 128
                 /\ arg_block_size >= 128 => block_size = arg_block_size
    /\ v1_pc = "idle" =>
          /\ mutation_block_size > 0
          /\ arg_mutation_block_size = << 0 >> => v1_ret = MSP_ERR_BAD_PARAM_VALUE
          /\ (arg_mutation_block_size # << >> /\ arg_mutation_block_size # << 0 >>) =>
                 v1_ret = OK /\ << mutation_block_size >> = arg_mutation_block_size

\* mutgen_alloc given a block size of zero has returned 0
C8_Witness ==
    /\ mg_pc = "idle"
    /\ mg_ret = OK
    /\ arg_block_size = 0
    /\ block_size = DefaultBlockSize

(* ---------------------- claims: haplotype generator -------------------- *)

\* the << sample, column >> whose bit the matrix holds
Bits ==
    { sc \in (0 .. sample_size - 1) \X (0 .. num_mutations - 1) :
        (sc[2] % HG_WORD_SIZE)
            \in haplotype_matrix[sc[1] * words_per_row + (sc[2] \div HG_WORD_SIZE) + 1] }

\* the last hapgen_get_haplotype was for a sample of the tree sequence
GotHaplotype ==
    /\ hg_pc = "built"
    /\ reads # {}
    /\ arg_sample_id \in 0 .. sample_size - 1

\* C2: after a successful hapgen_alloc on k mutations, hapgen_get_haplotype
\* for a sample s in 0 .. sample_size - 1 returns 0 and a string of k
\* characters, each '0' or '1', with '1' at column c exactly when s is in the
\* leaf list of a node of mutation c in the tree that carries it.
C2_HaplotypeIsCarrierRow ==
    GotHaplotype =>
        /\ hg_ret = OK
        /\ Len(out) = num_mutations
        /\ \A c \in 1 .. Len(out) :
              /\ out[c] \in { "0", "1" }
              /\ out[c] = "1" <=> << arg_sample_id, c - 1 >> \in carriers

\* a haplotype longer than a word, of a sample other than the first, with a
\* '1' beyond the first word and a '0' somewhere
C2_Witness ==
    /\ GotHaplotype
    /\ hg_ret = OK
    /\ arg_sample_id >= 1
    /\ num_mutations > HG_WORD_SIZE
    /\ Len(out) = num_mutations
    /\ out[HG_WORD_SIZE + 1] = "1"
    /\ \E c \in 1 .. Len(out) : out[c] = "0"

\* C4 as the specification states it: hapgen_get_haplotype returns the
\* out-of-bounds error, and reads no word of the matrix, for every sample_id
\* outside 0 .. sample_size - 1, the negative ones included, and returns 0
\* for every sample_id inside.
C4_OutOfBoundsRejected ==
    hg_pc \in { "built", "crashed" } =>
        IF arg_sample_id \in 0 .. sample_size - 1
        THEN hg_ret = OK
        ELSE hg_ret = MSP_ERR_OUT_OF_BOUNDS /\ reads = {}

\* the calls of the tree where a mutation asked twice for the same bit, one
\* after the other
RECURSIVE Flat(_, _)
Flat(calls, i) ==
    IF i > Len(calls) THEN << >> ELSE calls[i] \o Flat(calls, i + 1)

\* the place in a list of calls of the first call that repeats an earlier one
FirstRepeat(flat) ==
    CHOOSE b \in 1 .. Len(flat) :
        /\ \E a \in 1 .. b - 1 : flat[a] = flat[b]
        /\ \A d \in 1 .. b - 1 : \A a \in 1 .. d - 1 : flat[a] # flat[d]

\* C5: hapgen_alloc returns the inconsistent-mutations error exactly when a
\* mutation asks for a bit that is already set; once it has, the generator
\* stays failed with that error, and the matrix holds the bits of the trees
\* before and of the calls before the repeated one, no more.
C5_DuplicateBitStopsBuild ==
    /\ tree_calls # << >> =>
          /\ hg_pc = "failed"
          /\ hg_ret = MSP_ERR_INCONSISTENT_MUTATIONS
          /\ LET flat == Flat(tree_calls, 1)
                 r == FirstRepeat(flat)
             IN Bits = (carriers \ { flat[h] : h \in 1 .. Len(flat) })
                           \cup { flat[h] : h \in 1 .. r - 1 }
    /\ hg_ret = MSP_ERR_INCONSISTENT_MUTATIONS => tree_calls # << >>
    /\ hg_pc \in { "trees", "built" } => Bits = carriers

\* the build failed on a tree after the first, with bits of that tree set
\* before the repeated one
C5_Witness ==
    /\ hg_pc = "failed"
    /\ hg_ret = MSP_ERR_INCONSISTENT_MUTATIONS
    /\ trees_seen >= 2
    /\ tree_calls # << >>
    /\ FirstRepeat(Flat(tree_calls, 1)) >= 3

\* hapgen_alloc has set words_per_row and allocated
Allocated == haplotype # << >>

TypesTested == hg_pc # "uninit"

\* C10 as the specification states it: hapgen_alloc returns the
\* non-binary error for every tree sequence with more than one mutation type,
\* whatever its number of mutations, and not for one with exactly one; a
\* call that has run out of memory aside.
C10_NonBinaryAlwaysRejected ==
    (TypesTested /\ hg_ret # MSP_ERR_NO_MEMORY) =>
        /\ tree_sequence.num_mutation_types > 1 =>
               hg_ret = MSP_ERR_NONBINARY_MUTATIONS_UNSUPPORTED
        /\ tree_sequence.num_mutation_types = 1 =>
               hg_ret # MSP_ERR_NONBINARY_MUTATIONS_UNSUPPORTED

\* C10: hapgen_alloc returns the non-binary error exactly for a tree sequence
\* that has at least one mutation and a number of mutation types other than
\* one; with no mutations it goes on whatever the mutation-type table holds.
C10_NonBinaryRejectedIfMutations ==
    TypesTested =>
        (hg_ret = MSP_ERR_NONBINARY_MUTATIONS_UNSUPPORTED
            <=> (tree_sequence.num_mutations > 0
                    /\ tree_sequence.num_mutation_types # 1))

\* a generator built on a tree sequence with twelve mutation types and no
\* mutations
C10_Witness ==
    /\ hg_pc = "built"
    /\ hg_ret = OK
    /\ tree_sequence.num_mutations = 0
    /\ tree_sequence.num_mutation_types > 1

\* C11: every access of the haplotype generator is in bounds.  Each
\* hapgen_set_bit of the build has word < words_per_row (its assertion holds)
\* and an index below sample_size * words_per_row, the length of the matrix;
\* hapgen_get_haplotype for a sample of the tree sequence reads words of the
\* matrix only, and writes the buffer indexes 0 .. words_per_row * 64 - 1 and
\* the terminator at index num_mutations, all below words_per_row * 64 + 1,
\* the length of the buffer.
C11_AccessesInBounds ==
    /\ \A a \in touched :
          /\ a.word >= 0
          /\ a.word < words_per_row
          /\ a.index >= 0
          /\ a.index < sample_size * words_per_row
          /\ a.index < Len(haplotype_matrix)
    /\ (writes # {} /\ arg_sample_id \in 0 .. sample_size - 1) =>
          /\ hg_pc = "built"
          /\ writes = (0 .. words_per_row * 64 - 1) \cup { num_mutations }
          /\ \A i \in writes :
                /\ i >= 0
                /\ i < words_per_row * 64 + 1
                /\ i < Len(haplotype)
          /\ \A i \in reads : i >= 0 /\ i < Len(haplotype_matrix)

\* a generator on 65 mutations and several samples whose build set a bit in
\* the last word of the matrix, read for its last sample
C11_Witness ==
    /\ hg_pc = "built"
    /\ num_mutations = 65
    /\ sample_size >= 2
    /\ \E a \in touched :
          a.word = words_per_row - 1 /\ a.index = Len(haplotype_matrix) - 1
    /\ arg_sample_id = sample_size - 1
    /\ num_mutations \in writes
    /\ (Len(haplotype_matrix) - 1) \in reads

====
